---------------------------- MODULE Spec2Model ----------------------------
(***************************************************************************)
(* A model of the VirtuGood first-person walkthrough: the deterministic    *)
(* scatter generator (scatterData), the collision index and the player    *)
(* movement engine (Player), driven by key events, pointer lock and frame  *)
(* ticks.                                                                  *)
(*                                                                         *)
(* Numbers.  The program computes in IEEE doubles; the model computes in   *)
(* fixed point.  Lengths are integers counting 1/PosScale world units,     *)
(* angles count 1/AngleScale radians, frame times count 1/TimeScale        *)
(* seconds and velocities are whole world units per second.  With the      *)
(* frame times used, gravity, vertical integration and duck blending are   *)
(* exact; normalising a diagonal direction, projecting onto the wall       *)
(* circle, sqrt, sin and cos round to the nearest grid value, which plays  *)
(* the part of floating-point rounding.  A comparison sqrt(a) < b with     *)
(* b >= 0 is computed as a < b*b.                                          *)
(***************************************************************************)
EXTENDS Integers, Sequences, FiniteSets, TLC

PosScale == 100

AngleScale == 10000

TimeScale == 20

\* a / b rounded to the nearest integer (b > 0), halves rounded up
RoundDiv(a, b) == (2 * a + b) \div (2 * b)

Abs(a) == IF a < 0 THEN -a ELSE a

Min(a, b) == IF a < b THEN a ELSE b

Max(a, b) == IF a > b THEN a ELSE b

RECURSIVE SqrtSearch(_, _, _)
\* the largest r in lo..hi with r*r <= n (bisection)
SqrtSearch(n, lo, hi) ==
    IF lo >= hi THEN lo
    ELSE LET mid == (lo + hi + 1) \div 2
         IN  IF mid * mid <= n THEN SqrtSearch(n, mid, hi)
             ELSE SqrtSearch(n, lo, mid - 1)

\* Math.sqrt on the grid: the nearest integer to sqrt(n), 0 <= n < 2^31
Sqrt(n) ==
    LET r == SqrtSearch(n, 0, 46340)
    IN  IF n - r * r > r THEN r + 1 ELSE r

-----------------------------------------------------------------------------
(* Math.PI, Math.cos, Math.sin: angles and results in 1/AngleScale *)

PiFixed == 31416

HalfPi == PiFixed \div 2

TwoPi == 2 * PiFixed

\* cos on [0, pi/2]: the Taylor series to x^10, in Horner form
CosQ(x) ==
    LET x2 == (x * x) \div AngleScale
        h5 == AngleScale - (x2 * AngleScale) \div (90 * AngleScale)
        h4 == AngleScale - (x2 * h5) \div (56 * AngleScale)
        h3 == AngleScale - (x2 * h4) \div (30 * AngleScale)
        h2 == AngleScale - (x2 * h3) \div (12 * AngleScale)
    IN  AngleScale - (x2 * h2) \div (2 * AngleScale)

\* sin on [0, pi/2]: the Taylor series to x^11, in Horner form
SinQ(x) ==
    LET x2 == (x * x) \div AngleScale
        h5 == AngleScale - (x2 * AngleScale) \div (110 * AngleScale)
        h4 == AngleScale - (x2 * h5) \div (72 * AngleScale)
        h3 == AngleScale - (x2 * h4) \div (42 * AngleScale)
        h2 == AngleScale - (x2 * h3) \div (20 * AngleScale)
        h1 == AngleScale - (x2 * h2) \div (6 * AngleScale)
    IN  (x * h1) \div AngleScale

\* Math.cos(angle) * AngleScale, by quadrant
Cos(angle) ==
    LET a == angle % TwoPi
        q == a \div HalfPi
        r == a % HalfPi
    IN  CASE q = 0 -> CosQ(r)
          [] q = 1 -> -SinQ(r)
          [] q = 2 -> -CosQ(r)
          [] OTHER -> SinQ(r)

\* Math.sin(angle) * AngleScale, by quadrant
Sin(angle) ==
    LET a == angle % TwoPi
        q == a \div HalfPi
        r == a % HalfPi
    IN  CASE q = 0 -> SinQ(r)
          [] q = 1 -> CosQ(r)
          [] q = 2 -> -SinQ(r)
          [] OTHER -> -CosQ(r)

-----------------------------------------------------------------------------
(* scatterData: createRng, generateScatteredObjects.                       *)
(* A generator state is the 32-bit word <<high 16 bits, low 16 bits>>: the  *)
(* product 1664525 * state is exact in a double but not in a 32-bit        *)
(* integer, so it is formed limb by limb.                                  *)

Limb == 65536

LcgMultiplier == 1664525

LcgIncrement == 1013904223

SEED == 12345

VARIABLES
    rngState,     \* state of the generator stream created last (createRng's `state`)
    scattered     \* history: the generateScatteredObjects calls made, in order

\* a variant of createRng: one generator shared by every call, which goes on
\* from wherever the previous call left the stream
createRng_Shared(seed) == rngState

\* createRng(seed): the initial state, seed >>> 0
createRng(seed) == << (seed \div Limb) % Limb, seed % Limb >>

\* one call of the closure createRng returns:
\* state = (1664525 * state + 1013904223) % 4294967296
NextState(state) ==
    LET aHi  == LcgMultiplier \div Limb
        aLo  == LcgMultiplier % Limb
        cHi  == LcgIncrement \div Limb
        cLo  == LcgIncrement % Limb
        low  == aLo * state[2] + cLo
        high == ((aLo * state[1]) % Limb) + ((aHi * state[2]) % Limb)
                  + cHi + (low \div Limb)
    IN  << high % Limb, low % Limb >>

\* a variant of the scaled draw whose values reach the upper end: 1 .. k
Scaled_Inclusive(state, k) == (state[1] * k + (state[2] * k) \div Limb) \div Limb + 1

\* floor((state / 4294967296) * k), for 0 <= k < 32768
Scaled(state, k) == (state[1] * k + (state[2] * k) \div Limb) \div Limb

\* the body of the for loop for object i, drawing from the stream after s0
ScatterObject(i, count, startRadius, wallRadius, s0) ==
    LET s1 == NextState(s0)   \* angle jitter
        s2 == NextState(s1)   \* distance
        s3 == NextState(s2)   \* y
        s4 == NextState(s3)   \* type
        s5 == NextState(s4)   \* size
        s6 == NextState(s5)   \* rotation
        s7 == NextState(s6)   \* colour
        angle    == (i * TwoPi) \div count + Scaled(s1, AngleScale \div 2)
        distance == startRadius * PosScale
                      + Scaled(s2, (wallRadius - startRadius - 5) * PosScale)
    IN  [ object |->
            [ position   |-> << RoundDiv(Cos(angle) * distance, AngleScale),
                                Scaled(s3, 5 * PosScale),
                                RoundDiv(Sin(angle) * distance, AngleScale) >>,
              type       |-> Scaled(s4, 4),
              size       |-> PosScale + Scaled(s5, 3 * PosScale),
              rotation   |-> 2 * Scaled(s6, PiFixed),
              colorIndex |-> Scaled(s7, 6),
              key        |-> i ],
          state |-> s7 ]

RECURSIVE ScatterLoop(_, _, _, _, _, _)
\* for (let i = 0; i < count; i++) { ... objects.push(...) }
ScatterLoop(i, count, startRadius, wallRadius, state, objects) ==
    IF i >= count THEN [ objects |-> objects, state |-> state ]
    ELSE LET step == ScatterObject(i, count, startRadius, wallRadius, state)
         IN  ScatterLoop(i + 1, count, startRadius, wallRadius, step.state,
                         Append(objects, step.object))

\* generateScatteredObjects(count, startRadius, wallRadius)
generateScatteredObjects(count, startRadius, wallRadius) ==
    ScatterLoop(0, count, startRadius, wallRadius, createRng(SEED), << >>).objects

\* the defaults of generateScatteredObjects's parameters
DEFAULT_COUNT == 60

DEFAULT_START_RADIUS == 5

DEFAULT_WALL_RADIUS == 75

-----------------------------------------------------------------------------
(* Player: constants *)

SPEED == 10

SLOW_WALK_SPEED == 3

JUMP_FORCE == 8

GRAVITY == -20

GROUND_HEIGHT == 2

DUCK_HEIGHT == 1

\* 0.5 world units
PLAYER_RADIUS == PosScale \div 2

FOG_START_DISTANCE == 25

FOG_MAX_DISTANCE == 100

WALL_RADIUS == 75

\* e.code -> MoveState field
KEYS ==
    [ KeyW |-> "forward", KeyS |-> "backward", KeyA |-> "left", KeyD |-> "right",
      Space |-> "jump", ArrowUp |-> "forward", ArrowDown |-> "backward",
      ArrowLeft |-> "left", ArrowRight |-> "right" ]

-----------------------------------------------------------------------------
(* Player: generateCollisionBounds.  A shape is [type, position, size],    *)
(* position and size being <<x, y, z>> in 1/PosScale units.                *)

Shape(type, x, y, z, sx, sy, sz) ==
    [ type |-> type, position |-> << x, y, z >>, size |-> << sx, sy, sz >> ]

columnPositions ==
    << << -8, 0, -5 >>, << -8, 0, 5 >>, << -8, 0, 15 >>,
       << 8, 0, -5 >>, << 8, 0, 5 >>, << 8, 0, 15 >> >>

\* a variant of the column's shapes without the capital
ColumnBounds_NoCapital(p) ==
    << Shape("box", p[1] * PosScale, p[2] * PosScale + PosScale \div 2,
             p[3] * PosScale, 2 * PosScale, PosScale, 2 * PosScale),
       Shape("cylinder", p[1] * PosScale, p[2] * PosScale + 6 * PosScale,
             p[3] * PosScale, (8 * PosScale) \div 10, 10 * PosScale, 0) >>

\* the three shapes pushed for one column: base, shaft, capital
ColumnBounds(p) ==
    LET x == p[1] * PosScale
        y == p[2] * PosScale
        z == p[3] * PosScale
    IN  << Shape("box", x, y + PosScale \div 2, z,
                 2 * PosScale, PosScale, 2 * PosScale),
           Shape("cylinder", x, y + 6 * PosScale, z,
                 (8 * PosScale) \div 10, 10 * PosScale, 0),
           Shape("box", x, y + (115 * PosScale) \div 10, z,
                 (18 * PosScale) \div 10, PosScale, (18 * PosScale) \div 10) >>

\* The Giant at [30, 0, -30]: torso, head, left arm, right arm
GiantBounds ==
    LET gx == 30 * PosScale
        gy == 0
        gz == -30 * PosScale
    IN  << Shape("cylinder", gx, gy + 12 * PosScale, gz,
                 4 * PosScale, 12 * PosScale, 0),
           Shape("sphere", gx, gy + 20 * PosScale, gz, 3 * PosScale, 0, 0),
           Shape("cylinder", gx - 5 * PosScale, gy + 12 * PosScale,
                 gz + 2 * PosScale, PosScale, 10 * PosScale, 0),
           Shape("cylinder", gx + 5 * PosScale, gy + 12 * PosScale,
                 gz + 2 * PosScale, PosScale, 10 * PosScale, 0) >>

\* the shapes pushed for one scattered object (none for a type outside 0..3)
ScatteredBounds(obj) ==
    LET x    == obj.position[1]
        y    == obj.position[2]
        z    == obj.position[3]
        size == obj.size
    IN  CASE obj.type = 0 ->
               << Shape("box", x, y + RoundDiv(size * 3, 4), z,
                        size, RoundDiv(size * 3, 2), size) >>
          [] obj.type = 1 ->
               << Shape("cylinder", x, y + size, z,
                        RoundDiv(size, 2), size * 2, 0) >>
          [] obj.type = 2 ->
               << Shape("sphere", x, y, z, RoundDiv(size * 7, 10), 0, 0) >>
          [] obj.type = 3 ->
               << Shape("cylinder", x, y + size, z,
                        RoundDiv(size * 7, 10), size * 2, 0) >>
          [] OTHER -> << >>

RECURSIVE Flatten(_)
\* the concatenation of a sequence of sequences
Flatten(seqs) ==
    IF seqs = << >> THEN << >> ELSE Head(seqs) \o Flatten(Tail(seqs))

generateCollisionBounds(scatteredObjects) ==
    Flatten([ i \in 1..Len(columnPositions) |-> ColumnBounds(columnPositions[i]) ])
      \o GiantBounds
      \o Flatten([ i \in 1..Len(scatteredObjects) |->
                     ScatteredBounds(scatteredObjects[i]) ])

\* Player's useMemo pair: the scattered objects and the index built from them
staticCollisionBounds ==
    generateCollisionBounds(
        generateScatteredObjects(DEFAULT_COUNT, DEFAULT_START_RADIUS,
                                 DEFAULT_WALL_RADIUS))

-----------------------------------------------------------------------------
(* Room: what is drawn.  A primitive is described like a collision shape:  *)
(* its world-space centre and its extents (box: width, height, depth;      *)
(* sphere: radius; cylinder and cone: base radius, height).                *)

\* a point <<x, z>> of a group turned by `angle` about the Y axis
RotateY(x, z, angle) ==
    << RoundDiv(x * Cos(angle) + z * Sin(angle), AngleScale),
       RoundDiv(z * Cos(angle) - x * Sin(angle), AngleScale) >>

\* RandomObject: the mesh sits at the group's origin, the object's position
RandomObject(obj) ==
    LET x    == obj.position[1]
        y    == obj.position[2]
        z    == obj.position[3]
        size == obj.size
    IN  CASE obj.type = 0 ->
               << Shape("box", x, y, z, size, RoundDiv(size * 3, 2), size) >>
          [] obj.type = 1 ->
               << Shape("cylinder", x, y, z, RoundDiv(size, 2), size * 2, 0) >>
          [] obj.type = 2 ->
               << Shape("sphere", x, y, z, RoundDiv(size * 7, 10), 0, 0) >>
          [] obj.type = 3 ->
               << Shape("cone", x, y, z, RoundDiv(size * 7, 10), size * 2, 0) >>
          [] OTHER -> << >>

\* The Giant: a group at [30, 0, -30] turned by -PI / 4 about Y, holding the
\* torso, the head and the two arms at their local positions
GiantRendered ==
    LET gx == 30 * PosScale
        gz == -30 * PosScale
        turn == 0 - (PiFixed \div 4)
        Part(type, lx, ly, lz, sx, sy) ==
            LET w == RotateY(lx * PosScale, lz * PosScale, turn)
            IN  Shape(type, gx + w[1], ly * PosScale, gz + w[2],
                      sx * PosScale, sy * PosScale, 0)
    IN  << Part("cylinder", 0, 12, 0, 4, 12),
           Part("sphere", 0, 20, 0, 3, 0),
           Part("cylinder", -5, 12, 2, 1, 10),
           Part("cylinder", 5, 12, 2, 1, 10) >>

-----------------------------------------------------------------------------
(* Player: checkCollision(pos, playerHeight), pos = <<x, y, z>> *)

Sq(a) == a * a

\* distance along one axis from the point to the closest point of an interval,
\* pos - Math.max(min, Math.min(pos, max)); coordinates doubled so that
\* size / 2 stays exact
AxisDist2(center, size, pos) ==
    LET p2 == 2 * pos
        lo == 2 * center - size
        hi == 2 * center + size
    IN  IF p2 < lo THEN p2 - lo ELSE IF p2 > hi THEN p2 - hi ELSE 0

\* box: clamped closest point against the player's sphere
BoxHit(bound, pos) ==
    Sq(AxisDist2(bound.position[1], bound.size[1], pos[1]))
      + Sq(AxisDist2(bound.position[2], bound.size[2], pos[2]))
      + Sq(AxisDist2(bound.position[3], bound.size[3], pos[3]))
      < Sq(2 * PLAYER_RADIUS)

\* sphere: 3D distance, then vertical overlap with the player's extent
SphereHit(bound, pos, playerBottom2, playerTop2) ==
    /\ Sq(pos[1] - bound.position[1]) + Sq(pos[2] - bound.position[2])
         + Sq(pos[3] - bound.position[3]) < Sq(PLAYER_RADIUS + bound.size[1])
    /\ playerBottom2 < 2 * (bound.position[2] + bound.size[1])
    /\ playerTop2 > 2 * (bound.position[2] - bound.size[1])

\* cylinder: distance in the XZ plane, then vertical overlap
CylinderHit(bound, pos, playerBottom2, playerTop2) ==
    /\ Sq(pos[1] - bound.position[1]) + Sq(pos[3] - bound.position[3])
         < Sq(PLAYER_RADIUS + bound.size[1])
    /\ playerBottom2 < 2 * bound.position[2] + bound.size[2]
    /\ playerTop2 > 2 * bound.position[2] - bound.size[2]

\* one iteration of the loop over the index (heights doubled, as above)
BoundHit(bound, pos, playerHeight) ==
    IF bound.type = "box" THEN BoxHit(bound, pos)
    ELSE IF bound.type = "sphere"
    THEN SphereHit(bound, pos, 2 * pos[2] - playerHeight, 2 * pos[2] + playerHeight)
    ELSE IF bound.type = "cylinder"
    THEN CylinderHit(bound, pos, 2 * pos[2] - playerHeight, 2 * pos[2] + playerHeight)
    ELSE FALSE

\* overlaps(bounds, pos, playerHeight): true on the first hit
Overlaps(bounds, pos, playerHeight) ==
    \E i \in 1..Len(bounds) : BoundHit(bounds[i], pos, playerHeight)

\* a variant of checkCollision that reports no overlap at all
checkCollision_Never(pos, playerHeight) == FALSE

checkCollision(pos, playerHeight) ==
    Overlaps(staticCollisionBounds, pos, playerHeight)

-----------------------------------------------------------------------------
(* Player and its collaborators: state *)

VARIABLES
    camX, camY, camZ,   \* camera.position
    camYaw, camPitch,   \* camera.rotation, set by PointerLockControls (order YXZ, no roll)
    velocityY,          \* velocityY.current
    isGrounded,         \* isGrounded.current
    moveState,          \* moveState.current
    isLocked,           \* App's isLocked state, Player's prop
    capture,            \* the browser's pointer lock: "none", "pending" or "engaged"
    fogNear, fogFar,    \* scene.fog.near, scene.fog.far
    ticks,              \* history: active frames run so far
    lastFrame,          \* history: what the most recent frame callback did
    lastJump,           \* history: what became of a Space key-down since the last active frame
    hasStarted          \* Overlay's hasStartedRef.current

scatterVars == << rngState, scattered >>

cameraVars == << camX, camY, camZ, camYaw, camPitch >>

fogVars == << fogNear, fogFar >>

playerVars ==
    << camX, camY, camZ, camYaw, camPitch, velocityY, isGrounded, moveState,
       isLocked, capture, fogNear, fogFar, ticks >>

historyVars == << lastFrame, lastJump >>

overlayVars == << hasStarted >>

vars == << scatterVars, playerVars, historyVars, overlayVars >>

\* moveState's initial value
NoMove ==
    [ forward |-> FALSE, backward |-> FALSE, left |-> FALSE, right |-> FALSE,
      jump |-> FALSE, duck |-> FALSE, slowWalk |-> FALSE ]

-----------------------------------------------------------------------------
(* Player: the key listeners.  e = [code, ctrlKey, shiftKey] *)

\* a variant of the jump guard that looks at the velocity only
CanJump_VelocityOnly == velocityY = 0

\* a variant of the jump guard that lets a jump start at any time
CanJump_Always == TRUE

\* the guard of a jump
CanJump == isGrounded /\ velocityY = 0

\* a variant of the key-down guard that processes key-downs at any time
KeyDownActive_Always == TRUE

\* the guard at the top of handleKeyDown
KeyDownActive == isLocked

\* a variant of handleKeyDown that latches a jump in moveState.jump and
\* leaves the velocity and the grounded flag to the frame callback
handleKeyDown_Latched(e) ==
    /\ IF ~isLocked
       THEN UNCHANGED << moveState, lastJump >>
       ELSE LET ms1 == IF e.ctrlKey \/ e.code \in { "ControlLeft", "ControlRight" }
                       THEN [ moveState EXCEPT !.duck = TRUE ] ELSE moveState
                ms2 == IF e.shiftKey \/ e.code \in { "ShiftLeft", "ShiftRight" }
                       THEN [ ms1 EXCEPT !.slowWalk = TRUE ] ELSE ms1
            IN  /\ moveState' = IF e.code \in DOMAIN KEYS
                                THEN [ ms2 EXCEPT ![KEYS[e.code]] = TRUE ] ELSE ms2
                /\ lastJump' = IF e.code # "Space" THEN lastJump
                               ELSE IF isGrounded /\ velocityY = 0
                               THEN "jumped" ELSE "refused"
    /\ UNCHANGED << cameraVars, velocityY, isGrounded, isLocked, capture, fogVars, ticks,
                    lastFrame, scatterVars, overlayVars >>

handleKeyDown(e) ==
    /\ IF ~KeyDownActive
       THEN UNCHANGED << velocityY, isGrounded, moveState, lastJump >>
       ELSE LET ms1 == IF e.ctrlKey \/ e.code \in { "ControlLeft", "ControlRight" }
                       THEN [ moveState EXCEPT !.duck = TRUE ] ELSE moveState
                ms2 == IF e.shiftKey \/ e.code \in { "ShiftLeft", "ShiftRight" }
                       THEN [ ms1 EXCEPT !.slowWalk = TRUE ] ELSE ms1
            IN  IF e.code \in DOMAIN KEYS
                THEN IF e.code = "Space"
                     THEN /\ moveState' = ms2
                          /\ IF CanJump
                             THEN /\ velocityY' = JUMP_FORCE
                                  /\ isGrounded' = FALSE
                                  /\ lastJump' = "jumped"
                             ELSE /\ UNCHANGED << velocityY, isGrounded >>
                                  /\ lastJump' = "refused"
                     ELSE /\ moveState' = [ ms2 EXCEPT ![KEYS[e.code]] = TRUE ]
                          /\ UNCHANGED << velocityY, isGrounded, lastJump >>
                ELSE /\ moveState' = ms2
                     /\ UNCHANGED << velocityY, isGrounded, lastJump >>
    /\ UNCHANGED << cameraVars, isLocked, capture, fogVars, ticks, lastFrame,
                    scatterVars, overlayVars >>

handleKeyUp(e) ==
    /\ LET ms1 == IF e.code \in { "ControlLeft", "ControlRight" }
                  THEN [ moveState EXCEPT !.duck = FALSE ] ELSE moveState
           ms2 == IF e.code \in { "ShiftLeft", "ShiftRight" }
                  THEN [ ms1 EXCEPT !.slowWalk = FALSE ] ELSE ms1
           ms3 == IF ~e.ctrlKey THEN [ ms2 EXCEPT !.duck = FALSE ] ELSE ms2
           ms4 == IF ~e.shiftKey THEN [ ms3 EXCEPT !.slowWalk = FALSE ] ELSE ms3
       IN  moveState' = IF e.code \in DOMAIN KEYS /\ e.code # "Space"
                        THEN [ ms4 EXCEPT ![KEYS[e.code]] = FALSE ] ELSE ms4
    /\ UNCHANGED << cameraVars, velocityY, isGrounded, isLocked, capture, fogVars, ticks,
                    historyVars, scatterVars, overlayVars >>

-----------------------------------------------------------------------------
(* Player: useFrame *)

\* a variant of the frame guard that lets every frame run
FrameActive_Always == TRUE

\* the guard at the top of the frame callback
FrameActive == isLocked

\* gravity, vertical integration, ground test and duck / stand blending:
\* the velocity, height and grounded flag after a frame of `delta`
FrameVertical(delta, duck) ==
    LET v1 == velocityY + (GRAVITY * delta) \div TimeScale
        y1 == camY + (v1 * delta * PosScale) \div TimeScale
        isOnGround == y1 <= GROUND_HEIGHT * PosScale
        blend == (15 * delta * PosScale) \div TimeScale
    IN  IF isOnGround
        THEN [ velocityY  |-> IF v1 < 0 THEN 0 ELSE v1,
               isGrounded |-> TRUE,
               y |-> IF duck
                     THEN IF y1 > DUCK_HEIGHT * PosScale
                          THEN Max(DUCK_HEIGHT * PosScale, y1 - blend)
                          ELSE DUCK_HEIGHT * PosScale
                     ELSE IF y1 < GROUND_HEIGHT * PosScale
                          THEN Min(GROUND_HEIGHT * PosScale, y1 + blend)
                          ELSE GROUND_HEIGHT * PosScale ]
        ELSE [ velocityY |-> v1, isGrounded |-> FALSE, y |-> y1 ]

\* a variant of the direction that scales without normalising first
NormalizeScaled_Unnormalised(x, z, length) == << x * length, z * length >>

\* Vector3.normalize().multiplyScalar(length) of (x, 0, z): <<x, z>>
NormalizeScaled(x, z, length) ==
    LET len == Sqrt((x * x + z * z) * AngleScale * AngleScale)
    IN  IF len = 0 THEN << 0, 0 >>
        ELSE << RoundDiv(x * length * AngleScale, len),
                RoundDiv(z * length * AngleScale, len) >>

\* Vector3.applyEuler(camera.rotation) of (x, 0, z), rotation = yaw about Y
\* after pitch about X: the X and Z components
ApplyEuler(v, yaw, pitch) ==
    LET zp == RoundDiv(v[2] * Cos(pitch), AngleScale)
    IN  << RoundDiv(v[1] * Cos(yaw) + zp * Sin(yaw), AngleScale),
           RoundDiv(zp * Cos(yaw) - v[1] * Sin(yaw), AngleScale) >>

\* direction: frontVector - sideVector, normalised, scaled, rotated
Direction(ms, delta) ==
    LET Number(b) == IF b THEN 1 ELSE 0
        currentSpeed == IF ms.slowWalk THEN SLOW_WALK_SPEED ELSE SPEED
        frontZ == Number(ms.backward) - Number(ms.forward)
        sideX  == Number(ms.left) - Number(ms.right)
    IN  ApplyEuler(NormalizeScaled(0 - sideX, frontZ,
                                   (currentSpeed * delta * PosScale) \div TimeScale),
                   camYaw, camPitch)

\* distanceFromCenter >= WALL_RADIUS
BeyondWall(x, z) ==
    x * x + z * z >= (WALL_RADIUS * PosScale) * (WALL_RADIUS * PosScale)

\* a variant of the wall branch that commits the candidate as it is
WallPosition_Unprojected(x, z) == << x, z >>

\* a variant of the wall branch with the cosine and the sine exchanged
WallPosition_Swapped(x, z) ==
    LET dist == Sqrt(x * x + z * z)
    IN  << RoundDiv(z * WALL_RADIUS * PosScale, dist),
           RoundDiv(x * WALL_RADIUS * PosScale, dist) >>

\* the position on the wall boundary at the candidate's angle:
\* (cos(atan2(z, x)), sin(atan2(z, x))) * WALL_RADIUS
WallPosition(x, z) ==
    LET dist == Sqrt(x * x + z * z)
    IN  << RoundDiv(x * WALL_RADIUS * PosScale, dist),
           RoundDiv(z * WALL_RADIUS * PosScale, dist) >>

\* the height used for the collision test
CollisionHeight(duck) == (IF duck THEN DUCK_HEIGHT ELSE GROUND_HEIGHT) * PosScale

\* a variant of the collision branch that, on an overlap, still takes the
\* candidate's X and gives up Z only
HorizontalMove_KeepX(newX, newZ, duck) ==
    IF BeyondWall(newX, newZ)
    THEN [ pos |-> WallPosition(newX, newZ), branch |-> "wall" ]
    ELSE LET currentHeight == CollisionHeight(duck)
         IN  IF ~checkCollision(<< newX, currentHeight, newZ >>, currentHeight)
             THEN [ pos |-> << newX, newZ >>, branch |-> "moved" ]
             ELSE [ pos |-> << newX, camZ >>, branch |-> "blocked" ]

\* the wall / collision branch: the committed <<x, z>> and which branch ran
HorizontalMove(newX, newZ, duck) ==
    IF BeyondWall(newX, newZ)
    THEN [ pos |-> WallPosition(newX, newZ), branch |-> "wall" ]
    ELSE LET currentHeight == CollisionHeight(duck)
         IN  IF ~checkCollision(<< newX, currentHeight, newZ >>, currentHeight)
             THEN [ pos |-> << newX, newZ >>, branch |-> "moved" ]
             ELSE [ pos |-> << camX, camZ >>, branch |-> "blocked" ]

\* a variant of fogIntensity without the clamp to [0, 1]
FogIntensity_Unclamped(x, z) ==
    RoundDiv((Sqrt(x * x + z * z) - FOG_START_DISTANCE * PosScale) * AngleScale,
             (FOG_MAX_DISTANCE - FOG_START_DISTANCE) * PosScale)

\* fogIntensity in 1/AngleScale, from the planar distance of <<x, z>>
FogIntensity(x, z) ==
    LET newDistance == Sqrt(x * x + z * z)
    IN  Max(0, Min(AngleScale,
                   RoundDiv((newDistance - FOG_START_DISTANCE * PosScale) * AngleScale,
                            (FOG_MAX_DISTANCE - FOG_START_DISTANCE) * PosScale)))

FogNear(x, z) == 5 * PosScale + RoundDiv(FogIntensity(x, z) * 15 * PosScale, AngleScale)

FogFar(x, z) == 30 * PosScale + RoundDiv(FogIntensity(x, z) * 40 * PosScale, AngleScale)

\* MoveState with at most one flag changed, as one key event would leave it
OneKeyLater(ms) ==
    { ms } \cup { [ ms EXCEPT ![f] = ~ms[f] ] :
                    f \in { "forward", "backward", "left", "right", "duck", "slowWalk" } }

\* a variant of the frame callback that reads moveState.current a second
\* time for the horizontal part, after a key event may have changed it
useFrame_LiveRead(delta) ==
    IF ~FrameActive
    THEN /\ lastFrame' = "inactive"
         /\ UNCHANGED << playerVars, lastJump, scatterVars, overlayVars >>
    ELSE \E later \in OneKeyLater(moveState) :
         \E vert \in { FrameVertical(delta, moveState.duck) },
            dir \in { Direction(later, delta) } :
           \E move \in { HorizontalMove(camX + dir[1], camZ + dir[2], later.duck) } :
             /\ velocityY' = vert.velocityY
             /\ isGrounded' = vert.isGrounded
             /\ camY' = vert.y
             /\ camX' = move.pos[1]
             /\ camZ' = move.pos[2]
             /\ fogNear' = FogNear(move.pos[1], move.pos[2])
             /\ fogFar' = FogFar(move.pos[1], move.pos[2])
             /\ ticks' = ticks + 1
             /\ lastFrame' = move.branch
             /\ lastJump' = "none"
             /\ UNCHANGED << camYaw, camPitch, moveState, isLocked, capture,
                             scatterVars, overlayVars >>

\* a variant of the frame callback whose fog follows the candidate position
\* instead of the committed one
useFrame_FogOfCandidate(delta) ==
    IF ~FrameActive
    THEN /\ lastFrame' = "inactive"
         /\ UNCHANGED << playerVars, lastJump, scatterVars, overlayVars >>
    ELSE \E vert \in { FrameVertical(delta, moveState.duck) },
            dir \in { Direction(moveState, delta) } :
           \E move \in { HorizontalMove(camX + dir[1], camZ + dir[2], moveState.duck) } :
             /\ velocityY' = vert.velocityY
             /\ isGrounded' = vert.isGrounded
             /\ camY' = vert.y
             /\ camX' = move.pos[1]
             /\ camZ' = move.pos[2]
             /\ fogNear' = FogNear(camX + dir[1], camZ + dir[2])
             /\ fogFar' = FogFar(camX + dir[1], camZ + dir[2])
             /\ ticks' = ticks + 1
             /\ lastFrame' = move.branch
             /\ lastJump' = "none"
             /\ UNCHANGED << camYaw, camPitch, moveState, isLocked, capture,
                             scatterVars, overlayVars >>

\* the frame callback; each stage is evaluated once and bound to a name
useFrame(delta) ==
    IF ~FrameActive
    THEN /\ lastFrame' = "inactive"
         /\ UNCHANGED << playerVars, lastJump, scatterVars, overlayVars >>
    ELSE \E vert \in { FrameVertical(delta, moveState.duck) },
            dir \in { Direction(moveState, delta) } :
           \E move \in { HorizontalMove(camX + dir[1], camZ + dir[2], moveState.duck) } :
             /\ velocityY' = vert.velocityY
             /\ isGrounded' = vert.isGrounded
             /\ camY' = vert.y
             /\ camX' = move.pos[1]
             /\ camZ' = move.pos[2]
             /\ fogNear' = FogNear(move.pos[1], move.pos[2])
             /\ fogFar' = FogFar(move.pos[1], move.pos[2])
             /\ ticks' = ticks + 1
             /\ lastFrame' = move.branch
             /\ lastJump' = "none"
             /\ UNCHANGED << camYaw, camPitch, moveState, isLocked, capture,
                             scatterVars, overlayVars >>

-----------------------------------------------------------------------------
(* App, Overlay and PointerLockControls, as far as Player sees them *)

\* App's handleStart: it asks for the pointer lock and calls
\* setIsLocked(true) without waiting for the browser's answer; when the
\* fallback's canvas.requestPointerLock() throws, the catch leaves isLocked
\* as it is (threw)
handleStart(threw) ==
    IF threw
    THEN UNCHANGED << capture, isLocked >>
    ELSE /\ capture' = IF capture = "engaged" THEN "engaged" ELSE "pending"
         /\ isLocked' = TRUE

\* Overlay's Enter listener, registered while isLocked is false: the first
\* Enter sets hasStartedRef and calls onStart, which is App's handleStart
OverlayKeyDown(threw) ==
    /\ ~isLocked
    /\ IF hasStarted
       THEN UNCHANGED << capture, isLocked, hasStarted >>
       ELSE /\ hasStarted' = TRUE
            /\ handleStart(threw)
    /\ UNCHANGED << cameraVars, velocityY, isGrounded, moveState, fogVars, ticks,
                    historyVars, scatterVars >>

\* the browser refuses the request (pointerlockerror): no callback of App runs
LockDenied ==
    /\ capture = "pending"
    /\ capture' = "none"
    /\ UNCHANGED << cameraVars, velocityY, isGrounded, moveState, isLocked, fogVars,
                    ticks, historyVars, scatterVars, overlayVars >>

\* the pointer lock is engaged (after handleStart's request or a click on the
\* canvas) and PointerLockControls fires onLock: setIsLocked(true)
onLock ==
    /\ capture # "engaged"
    /\ capture' = "engaged"
    /\ isLocked' = TRUE
    /\ UNCHANGED << cameraVars, velocityY, isGrounded, moveState, fogVars, ticks,
                    historyVars, scatterVars, overlayVars >>

\* the pointer lock is lost and PointerLockControls fires onUnlock:
\* setIsLocked(false); the overlay is shown again and its effect on isLocked
\* clears hasStartedRef
onUnlock ==
    /\ capture = "engaged"
    /\ capture' = "none"
    /\ isLocked' = FALSE
    /\ hasStarted' = FALSE
    /\ UNCHANGED << cameraVars, velocityY, isGrounded, moveState, fogVars, ticks,
                    historyVars, scatterVars >>

\* a mouse move while the pointer is captured turns the camera
Look(yaw, pitch) ==
    /\ capture = "engaged"
    /\ << yaw, pitch >> # << camYaw, camPitch >>
    /\ camYaw' = yaw
    /\ camPitch' = pitch
    /\ UNCHANGED << camX, camY, camZ, velocityY, isGrounded, moveState, isLocked,
                    capture, fogVars, ticks, historyVars, scatterVars, overlayVars >>

-----------------------------------------------------------------------------
(* Room and Player each call generateScatteredObjects() in a useMemo *)

Callers == { "Room", "Player" }

\* the calls recorded are bounded
MaxCalls == 3

\* one call: a generator is created from SEED, the loop draws from it, and
\* the list is returned to the caller
Generate(who, count, startRadius, wallRadius) ==
    /\ Len(scattered) < MaxCalls
    /\ \E run \in { ScatterLoop(0, count, startRadius, wallRadius,
                                createRng(SEED), << >>) } :
         /\ scattered' = Append(scattered,
                                [ who |-> who,
                                  args |-> << count, startRadius, wallRadius >>,
                                  objects |-> run.objects ])
         /\ rngState' = run.state
    /\ UNCHANGED << playerVars, historyVars, overlayVars >>

-----------------------------------------------------------------------------
(* Initial state: Scene's camera at [0, 2, 10], fog 5..30, nothing held *)

Init ==
    /\ rngState = << 0, 0 >>
    /\ scattered = << >>
    /\ camX = 0
    /\ camY = 2 * PosScale
    /\ camZ = 10 * PosScale
    /\ camYaw = 0
    /\ camPitch = 0
    /\ velocityY = 0
    /\ isGrounded = TRUE
    /\ moveState = NoMove
    /\ isLocked = FALSE
    /\ capture = "none"
    /\ fogNear = 5 * PosScale
    /\ fogFar = 30 * PosScale
    /\ ticks = 0
    /\ lastFrame = "none"
    /\ lastJump = "none"
    /\ hasStarted = FALSE

Key(code, ctrlKey, shiftKey) ==
    [ code |-> code, ctrlKey |-> ctrlKey, shiftKey |-> shiftKey ]

-----------------------------------------------------------------------------
(* Specifications.  Each draws the key events, view angles and frame times *)
(* from small sets and runs a bounded number of active frames.             *)

\* a frame may run: inactive frames always, active ones within the budget
Budget(max) == ~FrameActive \/ ticks < max

\* e.ctrlKey of an event for another key: Ctrl is down whenever duck is set
CtrlHeld == moveState.duck

(* Walking: two direction keys and Ctrl, the view turned in quarter turns,  *)
(* frames of two seconds (twenty world units a step), so that the wall, 65 *)
(* units from the spawn point, is within a few frames.                     *)

MaxWalkTicks == 5

WalkCodes == { "KeyW", "KeyD", "ControlLeft" }

WalkYaws == { 0, HalfPi, PiFixed }

WalkDeltas == { 2 * TimeScale }

NextWalk ==
    \/ \E c \in WalkCodes : handleKeyDown(Key(c, c = "ControlLeft" \/ CtrlHeld, FALSE))
    \/ \E c \in WalkCodes : handleKeyUp(Key(c, c # "ControlLeft" /\ CtrlHeld, FALSE))
    \/ \E d \in WalkDeltas : Budget(MaxWalkTicks) /\ useFrame(d)
    \/ \E yaw \in WalkYaws : Look(yaw, 0)
    \/ onLock

SpecWalk == Init /\ [][NextWalk]_vars

(* Jumping and ducking: Space and Ctrl, the pointer locked and unlocked,    *)
(* frames of a tenth of a second and of one second.                        *)

MaxTicks == 8

Codes == { "Space", "ControlLeft" }

Deltas == { TimeScale \div 10, TimeScale }

Next ==
    \/ \E c \in Codes : handleKeyDown(Key(c, c = "ControlLeft" \/ CtrlHeld, FALSE))
    \/ \E c \in Codes : handleKeyUp(Key(c, c # "ControlLeft" /\ CtrlHeld, FALSE))
    \/ \E d \in Deltas : Budget(MaxTicks) /\ useFrame(d)
    \/ onLock
    \/ onUnlock

Spec == Init /\ [][Next]_vars

(* Pausing: S and Space, the pointer locked and unlocked, frames of one    *)
(* second (ten world units a step, so the fog thickens from the second     *)
(* step back from the spawn point).                                        *)

MaxLockTicks == 4

LockCodes == { "KeyS", "Space" }

LockDeltas == { TimeScale }

NextLock ==
    \/ \E c \in LockCodes : handleKeyDown(Key(c, FALSE, FALSE))
    \/ \E c \in LockCodes : handleKeyUp(Key(c, FALSE, FALSE))
    \/ \E d \in LockDeltas : Budget(MaxLockTicks) /\ useFrame(d)
    \/ onLock
    \/ onUnlock

SpecLock == Init /\ [][NextLock]_vars

(* Scattering: Room and Player call the generator, with the defaults and   *)
(* with other arguments, in any order.                                     *)

ScatterCounts == { 2, DEFAULT_COUNT }

ScatterStartRadii == { DEFAULT_START_RADIUS }

ScatterWallRadii == { 50, DEFAULT_WALL_RADIUS }

NextScatter ==
    \E who \in Callers, count \in ScatterCounts,
       startRadius \in ScatterStartRadii, wallRadius \in ScatterWallRadii :
      Generate(who, count, startRadius, wallRadius)

SpecScatter == Init /\ [][NextScatter]_vars

(* Blending: Ctrl and Space, frames of a twentieth of a second, short      *)
(* enough for a duck or a stand-up to take more than one frame.            *)

MaxBlendTicks == 6

BlendCodes == { "ControlLeft", "Space" }

BlendDeltas == { TimeScale \div 20 }

NextBlend ==
    \/ \E c \in BlendCodes : handleKeyDown(Key(c, c = "ControlLeft" \/ CtrlHeld, FALSE))
    \/ \E c \in BlendCodes : handleKeyUp(Key(c, c # "ControlLeft" /\ CtrlHeld, FALSE))
    \/ \E d \in BlendDeltas : Budget(MaxBlendTicks) /\ useFrame(d)
    \/ onLock
    \/ onUnlock

SpecBlend == Init /\ [][NextBlend]_vars

(* Steering: the four direction keys with Shift and Ctrl, the view turned   *)
(* and tilted by a sixth of a half turn, one frame of half a second.        *)

MaxSteerTicks == 1

SteerCodes == { "KeyW", "KeyS", "KeyA", "KeyD", "ShiftLeft", "ControlLeft" }

SteerYaws == { 0, PiFixed \div 6 }

SteerPitches == { 0, PiFixed \div 6 }

SteerDeltas == { TimeScale \div 2 }

ShiftHeld == moveState.slowWalk

NextSteer ==
    \/ \E c \in SteerCodes :
         handleKeyDown(Key(c, c = "ControlLeft" \/ CtrlHeld, c = "ShiftLeft" \/ ShiftHeld))
    \/ \E c \in SteerCodes :
         handleKeyUp(Key(c, c # "ControlLeft" /\ CtrlHeld, c # "ShiftLeft" /\ ShiftHeld))
    \/ \E d \in SteerDeltas : Budget(MaxSteerTicks) /\ useFrame(d)
    \/ \E yaw \in SteerYaws, pitch \in SteerPitches : Look(yaw, pitch)
    \/ onLock

SpecSteer == Init /\ [][NextSteer]_vars

(* Starting: the overlay's start, the browser granting or refusing the     *)
(* pointer lock, the lock being lost, S, frames of one second.             *)

MaxCaptureTicks == 3

CaptureCodes == { "KeyS" }

CaptureDeltas == { TimeScale }

NextCapture ==
    \/ \E threw \in BOOLEAN : OverlayKeyDown(threw)
    \/ LockDenied
    \/ onLock
    \/ onUnlock
    \/ \E c \in CaptureCodes : handleKeyDown(Key(c, FALSE, FALSE))
    \/ \E c \in CaptureCodes : handleKeyUp(Key(c, FALSE, FALSE))
    \/ \E d \in CaptureDeltas : Budget(MaxCaptureTicks) /\ useFrame(d)

SpecCapture == Init /\ [][NextCapture]_vars

(* Fog: the fog update of the frame callback, applied at positions drawn   *)
(* from a grid that reaches from the centre to beyond FOG_MAX_DISTANCE.    *)

FogXs ==
    { x * PosScale :
        x \in { -110, -100, -75, -30, -25, 0, 10, 25, 26, 50, 75, 99, 100, 101, 110 } }

FogZs == { z * PosScale : z \in { 0, 10, 25, 60 } }

\* the fog lines of the frame callback, at the position the camera has
UpdateFog ==
    /\ lastFrame # "fog"
    /\ fogNear' = FogNear(camX, camZ)
    /\ fogFar' = FogFar(camX, camZ)
    /\ lastFrame' = "fog"
    /\ UNCHANGED << cameraVars, velocityY, isGrounded, moveState, isLocked, capture,
                    ticks, lastJump, scatterVars, overlayVars >>

InitFog ==
    /\ rngState = << 0, 0 >>
    /\ scattered = << >>
    /\ camX \in FogXs
    /\ camY = 2 * PosScale
    /\ camZ \in FogZs
    /\ camYaw = 0
    /\ camPitch = 0
    /\ velocityY = 0
    /\ isGrounded = TRUE
    /\ moveState = NoMove
    /\ isLocked = FALSE
    /\ capture = "none"
    /\ fogNear = 5 * PosScale
    /\ fogFar = 30 * PosScale
    /\ ticks = 0
    /\ lastFrame = "none"
    /\ lastJump = "none"
    /\ hasStarted = FALSE

NextFog == UpdateFog

SpecFog == InitFog /\ [][NextFog]_vars

-----------------------------------------------------------------------------
(* Properties.  A frame that ran is a step that advances `ticks`; a frame  *)
(* that returned at its guard is a step that changes `lastFrame` only.     *)

ActiveTick == ticks' = ticks + 1

FrameStep == ticks' # ticks \/ lastFrame' # lastFrame

\* the rounding of the wall projection: 0.02 world units
WallTolerance == PosScale \div 50

\* C1 (boundary containment): in every reachable state the committed
\* horizontal position is within WALL_RADIUS of the origin, up to the
\* rounding of the projection onto the wall circle.
C1_BoundaryContainment ==
    camX * camX + camZ * camZ <= Sq(WALL_RADIUS * PosScale + WallTolerance)

\* the last frame ended on the wall circle, off both axes
C1_Witness == lastFrame = "wall" /\ camX # 0 /\ camZ # 0

C3_JumpGating ==
    [][ /\ (~isGrounded \/ velocityY # 0) /\ ~FrameStep
            => UNCHANGED << velocityY, isGrounded >>
        /\ ~isGrounded /\ velocityY # JUMP_FORCE => velocityY' # JUMP_FORCE ]_vars

\* a jump was asked for in mid-air and refused
C3_Witness ==
    lastJump = "refused" /\ ~isGrounded /\ camY > GROUND_HEIGHT * PosScale

\* C4 as stated (jump latching): the key-down that asks for a jump, the
\* player grounded with velocity 0, leaves the velocity and the grounded
\* flag as they were.
C4_KeyDownLeavesVelocity ==
    [][ CanJump /\ isLocked /\ lastJump' = "jumped"
          => UNCHANGED << velocityY, isGrounded >> ]_vars

\* C4 (jump on key-down): the key-down that asks for a jump, the player
\* grounded with velocity 0, itself sets the velocity to JUMP_FORCE and
\* clears the grounded flag; the next active frame integrates gravity from
\* there, leaving JUMP_FORCE + GRAVITY * delta, or 0 if it lands falling.
C4_JumpOnKeyDown ==
    [][ /\ CanJump /\ isLocked /\ lastJump' = "jumped"
            => velocityY' = JUMP_FORCE /\ ~isGrounded'
        /\ lastJump = "jumped" /\ ActiveTick
            => \E d \in Deltas :
                 LET v1 == JUMP_FORCE + (GRAVITY * d) \div TimeScale
                 IN  velocityY' = IF v1 < 0 /\ isGrounded' THEN 0 ELSE v1 ]_vars

\* the state a jump's key-down leaves, before any frame has run
C4_Witness == lastJump = "jumped" /\ velocityY = JUMP_FORCE /\ ~isGrounded

\* C5 (inactive frame): a frame while isLocked is false leaves the camera
\* position, the velocity, the grounded flag, MoveState and the fog as they
\* were.
C5_InactiveTickNoOp ==
    [][ ~isLocked /\ FrameStep
          => UNCHANGED << camX, camY, camZ, velocityY, isGrounded, moveState,
                          fogNear, fogFar >> ]_vars

\* a frame came while paused in mid-jump, S held, in thickened fog
C5_Witness ==
    /\ lastFrame = "inactive"
    /\ ~isLocked
    /\ moveState.backward
    /\ velocityY = JUMP_FORCE
    /\ fogNear > 5 * PosScale

\* C6 as stated (MoveState reset): when isLocked goes from true to false,
\* every MoveState flag is false afterwards.
C6_ResetOnUnlock == [][ isLocked /\ ~isLocked' => moveState' = NoMove ]_vars

\* C7 (scatter determinism): any two calls of generateScatteredObjects with
\* the same arguments returned the same list, whoever made them and
\* whatever calls came before or between.
C7_ScatterDeterminism ==
    \A i, j \in 1..Len(scattered) :
      scattered[i].args = scattered[j].args
        => scattered[i].objects = scattered[j].objects

\* Room and Player both called with the defaults, a different call between
C7_Witness ==
    /\ Len(scattered) = 3
    /\ scattered[1].who = "Room"
    /\ scattered[3].who = "Player"
    /\ scattered[1].args =
         << DEFAULT_COUNT, DEFAULT_START_RADIUS, DEFAULT_WALL_RADIUS >>
    /\ scattered[3].args = scattered[1].args
    /\ scattered[2].args # scattered[1].args
    /\ Len(scattered[3].objects) = DEFAULT_COUNT

\* C8 as stated (rest velocity): whenever the grounded flag is true the
\* vertical velocity is 0.
C8_RestVelocity == isGrounded => velocityY = 0

\* C9 as stated (grounded height): after every active frame that ends
\* grounded the camera height is within [DUCK_HEIGHT, GROUND_HEIGHT].
C9_GroundedHeight ==
    [][ ActiveTick /\ isGrounded'
          => /\ camY' >= DUCK_HEIGHT * PosScale
             /\ camY' <= GROUND_HEIGHT * PosScale ]_vars

\* C10 as stated (duck / stand monotonicity): over an active frame that
\* starts and ends grounded, the height does not rise and stays at or above
\* DUCK_HEIGHT with duck held, and does not fall and stays at or below
\* GROUND_HEIGHT with duck released.
C10_DuckStandMonotone ==
    [][ ActiveTick /\ isGrounded /\ isGrounded'
          => IF moveState.duck
             THEN camY' <= camY /\ camY' >= DUCK_HEIGHT * PosScale
             ELSE camY' >= camY /\ camY' <= GROUND_HEIGHT * PosScale ]_vars

\* C11 as stated (jump completes), its safety part: during a jump, duck
\* released, no active frame that starts in the air at or above GROUND_HEIGHT
\* ends with the camera below GROUND_HEIGHT.
C11_JumpStaysAboveGround ==
    [][ ActiveTick /\ ~isGrounded /\ ~moveState.duck
          /\ camY >= GROUND_HEIGHT * PosScale
          => camY' >= GROUND_HEIGHT * PosScale ]_vars

\* C12 (collision rejection): an active frame whose candidate is inside the
\* wall radius and overlaps a shape of the index leaves camera X and Z both
\* as they were.
C12_CollisionRejection ==
    [][ ActiveTick
          => \A d \in WalkDeltas :
               \A dir \in { Direction(moveState, d) } :
                 ( /\ ~BeyondWall(camX + dir[1], camZ + dir[2])
                   /\ Overlaps(staticCollisionBounds,
                               << camX + dir[1], CollisionHeight(moveState.duck),
                                  camZ + dir[2] >>,
                               CollisionHeight(moveState.duck)) )
                   => camX' = camX /\ camZ' = camZ ]_vars

\* a frame with W and D held whose diagonal move was rejected
C12_Witness == lastFrame = "blocked" /\ moveState.forward /\ moveState.right

\* the planar distance of the camera from the centre
CamDistance == Sqrt(camX * camX + camZ * camZ)

\* C13 (fog mapping): after a fog update at planar distance d, near is
\* 5 + 15 * i and far is 30 + 40 * i with i = (d - 25) / 75 clamped to
\* [0, 1], to within one grid unit: near 5 and far 30 for d <= 25, near 20
\* and far 70 for d >= 100, linear in between; and neither is larger than
\* the near and far of any position at least as distant.
C13_FogMapping ==
    lastFrame = "fog" =>
      /\ CamDistance <= FOG_START_DISTANCE * PosScale
           => fogNear = 5 * PosScale /\ fogFar = 30 * PosScale
      /\ CamDistance >= FOG_MAX_DISTANCE * PosScale
           => fogNear = 20 * PosScale /\ fogFar = 70 * PosScale
      /\ ( /\ CamDistance >= FOG_START_DISTANCE * PosScale
           /\ CamDistance <= FOG_MAX_DISTANCE * PosScale )
           => /\ Abs(5 * (fogNear - 5 * PosScale)
                       - (CamDistance - FOG_START_DISTANCE * PosScale)) <= 5
              /\ Abs(15 * (fogFar - 30 * PosScale)
                       - 8 * (CamDistance - FOG_START_DISTANCE * PosScale)) <= 15
      /\ \A x \in FogXs, z \in FogZs :
           Sqrt(x * x + z * z) >= CamDistance
             => FogNear(x, z) >= fogNear /\ FogFar(x, z) >= fogFar

\* a fog update strictly between the two clamps
C13_Witness ==
    /\ lastFrame = "fog"
    /\ fogNear > 5 * PosScale
    /\ fogNear < 20 * PosScale
    /\ fogFar > 30 * PosScale
    /\ fogFar < 70 * PosScale

\* C14 as stated (active flag tracks capture): when a start attempt ends
\* without the pointer lock, isLocked is false afterwards, and no frame
\* integrates while the pointer lock is neither engaged nor being acquired.
C14_ActiveTracksCapture ==
    [][ /\ capture = "pending" /\ capture' = "none" => ~isLocked'
        /\ ActiveTick => capture # "none" ]_vars

\* C15 as stated (straight walk): an active frame with only forward held
\* (slow-walk or not), the view level and unrotated, the player at rest at
\* GROUND_HEIGHT and the candidate free, moves the camera by the speed times
\* the frame time in -Z and by 0 in X, and leaves the height at
\* GROUND_HEIGHT.
C15_StraightWalk ==
    [][ ( /\ ActiveTick
          /\ [ moveState EXCEPT !.slowWalk = FALSE ] = [ NoMove EXCEPT !.forward = TRUE ]
          /\ camYaw = 0 /\ camPitch = 0
          /\ isGrounded /\ velocityY = 0 /\ camY = GROUND_HEIGHT * PosScale
          /\ lastFrame' = "moved" )
          => \E d \in WalkDeltas :
               /\ camZ' = camZ - ((IF moveState.slowWalk THEN SLOW_WALK_SPEED ELSE SPEED)
                                    * d * PosScale) \div TimeScale
               /\ camX' = camX
               /\ camY' = GROUND_HEIGHT * PosScale ]_vars

\* the centre and the extents of a shape or primitive
Geometry(shape) == << shape.position, shape.size >>

\* C16 as stated (render / collision agreement): for every object of every
\* list generated, the collision shape built for it has the centre and the
\* extents of the primitive drawn for it, and each of the statue's collision
\* shapes is centred where the part drawn for it is.
C16_RenderCollisionAgree ==
    /\ \A c \in 1..Len(scattered) :
         \A k \in 1..Len(scattered[c].objects) :
           LET obj == scattered[c].objects[k]
           IN  Geometry(ScatteredBounds(obj)[1]) = Geometry(RandomObject(obj)[1])
    /\ \A p \in 1..Len(GiantBounds) :
         GiantBounds[p].position = GiantRendered[p].position

\* the rounding of a scattered position: 0.04 world units
ScatterTolerance == PosScale \div 25

\* the call made last
LastCall == scattered[Len(scattered)]

\* C17 (scatter ranges): the list a call returned has `count` objects, and
\* each has its planar distance in [startRadius, wallRadius - 5), up to the
\* rounding of the position, its Y in [0, 5), its type in 0..3, its size in
\* [1, 4), its rotation in [0, 2 PI), its colour index in 0..5, and a key no
\* other object of the list has.
C17_ScatterRanges ==
    Len(scattered) > 0 =>
      LET count       == LastCall.args[1]
          startRadius == LastCall.args[2]
          wallRadius  == LastCall.args[3]
          objects     == LastCall.objects
      IN  /\ Len(objects) = count
          /\ \A k \in 1..Len(objects) :
               LET obj == objects[k]
                   d   == Sqrt(obj.position[1] * obj.position[1]
                                 + obj.position[3] * obj.position[3])
               IN  /\ d >= startRadius * PosScale - ScatterTolerance
                   /\ d < (wallRadius - 5) * PosScale + ScatterTolerance
                   /\ obj.position[2] >= 0
                   /\ obj.position[2] < 5 * PosScale
                   /\ obj.type \in 0..3
                   /\ obj.size >= PosScale
                   /\ obj.size < 4 * PosScale
                   /\ obj.rotation >= 0
                   /\ obj.rotation < TwoPi
                   /\ obj.colorIndex \in 0..5
                   /\ \A j \in 1..Len(objects) : objects[j].key = obj.key => j = k

\* a call with the defaults: sixty objects, every type and colour among them
C17_Witness ==
    /\ Len(scattered) > 0
    /\ LastCall.args = << DEFAULT_COUNT, DEFAULT_START_RADIUS, DEFAULT_WALL_RADIUS >>
    /\ \A t \in 0..3 : \E k \in 1..Len(LastCall.objects) : LastCall.objects[k].type = t
    /\ \A c \in 0..5 : \E k \in 1..Len(LastCall.objects) : LastCall.objects[k].colorIndex = c

\* the kind of shape the index holds for a scattered object of each type
BoundTypeOf(type) ==
    CASE type = 0 -> "box" [] type = 1 -> "cylinder"
      [] type = 2 -> "sphere" [] type = 3 -> "cylinder"

\* C18 (collision index composition): the index built from a generated list
\* has 22 shapes and then one per object: box, cylinder, box for each of the
\* six columns at its position, cylinder, sphere, cylinder, cylinder for the
\* statue, and for object k a box, cylinder, sphere or cylinder by its type
\* 0, 1, 2 or 3; the index built from the default list is the one Player
\* collides with.
C18_IndexComposition ==
    Len(scattered) > 0 =>
      LET objects == LastCall.objects
          bounds  == generateCollisionBounds(objects)
      IN  /\ Len(bounds) = 22 + Len(objects)
          /\ \A c \in 1..6 :
               /\ bounds[3 * c - 2].type = "box"
               /\ bounds[3 * c - 1].type = "cylinder"
               /\ bounds[3 * c].type = "box"
               /\ \A s \in 0..2 :
                    /\ bounds[3 * c - s].position[1] = columnPositions[c][1] * PosScale
                    /\ bounds[3 * c - s].position[3] = columnPositions[c][3] * PosScale
          /\ << bounds[19].type, bounds[20].type, bounds[21].type, bounds[22].type >>
               = << "cylinder", "sphere", "cylinder", "cylinder" >>
          /\ \A k \in 1..Len(objects) :
               /\ bounds[22 + k].type = BoundTypeOf(objects[k].type)
               /\ bounds[22 + k].position[1] = objects[k].position[1]
               /\ bounds[22 + k].position[3] = objects[k].position[3]
          /\ LastCall.args = << DEFAULT_COUNT, DEFAULT_START_RADIUS, DEFAULT_WALL_RADIUS >>
               => bounds = staticCollisionBounds

\* Player's call with the defaults, giving an index of 82 shapes
C18_Witness ==
    /\ Len(scattered) > 0
    /\ LastCall.who = "Player"
    /\ LastCall.args = << DEFAULT_COUNT, DEFAULT_START_RADIUS, DEFAULT_WALL_RADIUS >>
    /\ Len(generateCollisionBounds(LastCall.objects)) = 82

\* C19 as stated (blending rate): over an active frame that starts at rest
\* on the ground and ends grounded, the height moves from where it was
\* towards its target (DUCK_HEIGHT with duck held, else GROUND_HEIGHT) by 15
\* times the frame time, or by the distance left if that is less.
C19_BlendingRate ==
    [][ ActiveTick /\ isGrounded /\ velocityY = 0 /\ isGrounded'
          => \E d \in BlendDeltas :
               LET step   == (15 * d * PosScale) \div TimeScale
                   target == CollisionHeight(moveState.duck)
               IN  camY' = IF camY > target
                           THEN Max(target, camY - step)
                           ELSE Min(target, camY + step) ]_vars

\* C20 (wall slide): in an active frame whose candidate lies at or beyond
\* WALL_RADIUS the committed position is on the wall circle (up to the
\* rounding of the projection) in the candidate's direction from the
\* origin; in an active frame whose candidate lies strictly inside the
\* wall and overlaps nothing, the candidate itself is committed, also
\* when the frame starts on the wall.
C20_WallSlide ==
    [][ ActiveTick
          => \A d \in WalkDeltas :
               \A dir \in { Direction(moveState, d) } :
                 LET newX == camX + dir[1]
                     newZ == camZ + dir[2]
                     h    == CollisionHeight(moveState.duck)
                 IN  /\ BeyondWall(newX, newZ)
                          => /\ camX' * camX' + camZ' * camZ'
                                  >= Sq(WALL_RADIUS * PosScale - WallTolerance)
                             /\ camX' * camX' + camZ' * camZ'
                                  <= Sq(WALL_RADIUS * PosScale + WallTolerance)
                             /\ Abs(newX * camZ' - newZ * camX')
                                  <= Abs(newX) + Abs(newZ)
                             /\ newX * camX' + newZ * camZ' > 0
                     /\ ( /\ ~BeyondWall(newX, newZ)
                          /\ ~Overlaps(staticCollisionBounds,
                                       << newX, h, newZ >>, h) )
                          => camX' = newX /\ camZ' = newZ ]_vars


\* one step back inside after a commit onto the wall circle: straight ahead
\* from the start the frames end at 30, 50, 70 and then on the wall at 75,
\* and only from there does a step lead to 55
C20_Witness ==
    /\ lastFrame = "moved"
    /\ camX = 0
    /\ camZ = WALL_RADIUS * PosScale - SPEED * 2 * PosScale


\* C21 (fog tracks the committed position): in every reachable state the
\* fog's near and far distances are the fog mapping of the planar distance
\* of the committed camera position.
C21_FogOfCommitted ==
    /\ fogNear = FogNear(camX, camZ)
    /\ fogFar = FogFar(camX, camZ)

\* a frame whose candidate was rejected at a place where the fog has begun
C21_Witness == lastFrame = "blocked" /\ fogNear > 5 * PosScale


\* rounding allowed in the length of a displacement, in 1/PosScale units
SteerTolerance == 3

\* the length a frame of time d may cover at the current speed
Reach(ms, d) ==
    ((IF ms.slowWalk THEN SLOW_WALK_SPEED ELSE SPEED) * d * PosScale) \div TimeScale

\* the flags with each opposing pair that is held together released
Cancelled(ms) ==
    [ ms EXCEPT !.forward  = ms.forward /\ ~ms.backward,
                !.backward = ms.backward /\ ~ms.forward,
                !.left     = ms.left /\ ~ms.right,
                !.right    = ms.right /\ ~ms.left ]

\* C23 (direction normalisation): in every active frame the horizontal
\* displacement of the candidate is no longer than speed times frame time
\* (SLOW_WALK_SPEED with slowWalk, else SPEED); with a level view and a
\* direction left after cancelling it is exactly that long, for one flag as
\* for two perpendicular ones; flags held against each other cancel, and
\* with nothing else held the displacement is zero; a free move commits
\* exactly this displacement.
C23_DirectionNormalised ==
    [][ ActiveTick
          => \A d \in SteerDeltas :
               \A dir \in { Direction(moveState, d) } :
                 LET len2 == dir[1] * dir[1] + dir[2] * dir[2]
                     net  == Cancelled(moveState)
                     idle == ~(net.forward \/ net.backward \/ net.left \/ net.right)
                 IN  /\ len2 <= Sq(Reach(moveState, d) + SteerTolerance)
                     /\ (camPitch = 0 /\ ~idle)
                          => len2 >= Sq(Reach(moveState, d) - SteerTolerance)
                     /\ idle => dir = << 0, 0 >>
                     /\ dir = Direction(net, d)
                     /\ lastFrame' = "moved"
                          => camX' = camX + dir[1] /\ camZ' = camZ + dir[2] ]_vars

\* a frame walked diagonally at slow speed with S held against W and D
C23_Witness ==
    /\ lastFrame = "moved"
    /\ moveState.forward /\ moveState.backward /\ moveState.right /\ ~moveState.left
    /\ moveState.slowWalk
    /\ camX # 0
    /\ camZ = 10 * PosScale


\* C22 (tick atomicity): every step is either a key event or a frame, never
\* both; an active frame takes its speed, its direction, its blending
\* target and its collision height from the MoveState it starts with and
\* leaves MoveState as it is; a key event moves neither the tick count nor
\* the camera position nor the fog, so it is seen by later frames only.
C22_TickAtomicity ==
    [][ /\ ActiveTick
          => /\ moveState' = moveState
             /\ \E d \in SteerDeltas :
                  \E vert \in { FrameVertical(d, moveState.duck) },
                     dir \in { Direction(moveState, d) } :
                    \E move \in { HorizontalMove(camX + dir[1], camZ + dir[2],
                                                 moveState.duck) } :
                      /\ camY' = vert.y
                      /\ velocityY' = vert.velocityY
                      /\ camX' = move.pos[1]
                      /\ camZ' = move.pos[2]
                      /\ dir[1] * dir[1] + dir[2] * dir[2]
                           <= Sq(Reach(moveState, d) + SteerTolerance)
        /\ moveState' # moveState
          => /\ ticks' = ticks
             /\ lastFrame' = lastFrame
             /\ UNCHANGED << camX, camY, camZ, fogNear, fogFar >> ]_vars

\* a frame walked to the left, slowly and ducking
C22_Witness ==
    /\ lastFrame = "moved"
    /\ moveState.left /\ moveState.duck /\ moveState.slowWalk
    /\ ~moveState.right /\ ~moveState.forward /\ ~moveState.backward
    /\ camX # 0
    /\ camY < GROUND_HEIGHT * PosScale


\* a step that is neither a frame nor a change of the lock
KeyStep ==
    /\ ticks' = ticks
    /\ lastFrame' = lastFrame
    /\ isLocked' = isLocked
    /\ capture' = capture

\* C24 (key events while inactive): while isLocked is false a key event
\* sets no flag of MoveState and changes neither the vertical velocity nor
\* the grounded flag, so a key-down there changes nothing; a key-up clears
\* the flag of the released key whether isLocked is true or false.
C24_KeysWhileInactive ==
    [][ /\ (~isLocked /\ KeyStep)
          => /\ \A f \in DOMAIN moveState : moveState'[f] => moveState[f]
             /\ velocityY' = velocityY
             /\ isGrounded' = isGrounded
        /\ \A c \in LockCodes :
             (~isLocked /\ handleKeyDown(Key(c, FALSE, FALSE)))
               => UNCHANGED << moveState, velocityY, isGrounded >>
        /\ \A c \in LockCodes :
             handleKeyUp(Key(c, FALSE, FALSE)) => ~moveState'[KEYS[c]] ]_vars

\* the inactive period with S released in it: not locked, the last frame
\* skipped, the player walked backwards before and no flag left
C24_Witness ==
    /\ ~isLocked
    /\ lastFrame = "inactive"
    /\ moveState = NoMove
    /\ camZ > 10 * PosScale
    /\ ticks = 1


\* the height of a jump from standing: GROUND_HEIGHT + JUMP_FORCE^2 / (2 |GRAVITY|)
JumpApex ==
    GROUND_HEIGHT * PosScale + (JUMP_FORCE * JUMP_FORCE * PosScale) \div (2 * Abs(GRAVITY))

\* C25 (bounded jump): in every reachable state the vertical velocity is at
\* most JUMP_FORCE and the camera height at most the apex of a jump from
\* standing, 3.6, however Space key-downs and frames are interleaved.
C25_BoundedJump ==
    /\ velocityY <= JUMP_FORCE
    /\ camY <= JumpApex

\* the top of a jump made of frames of a tenth of a second: in the air, at
\* rest, at height 3.2
C25_Witness ==
    /\ ~isGrounded
    /\ velocityY = 0
    /\ camY = 320
    /\ lastFrame = "moved"


\* C26 as stated (start once, retry): an Enter press while locked, or after
\* a start has been asked for, invokes nothing; hasStartedRef is cleared only
\* when isLocked changes; and whenever the overlay is shown, also after a
\* start attempt that did not lock, hasStartedRef is clear, so that a
\* further Enter press invokes onStart.
C26_StartOnceAndRetry ==
    [][ /\ \A threw \in BOOLEAN :
             (OverlayKeyDown(threw) /\ (isLocked \/ hasStarted))
               => UNCHANGED << capture, isLocked, hasStarted >>
        /\ (hasStarted /\ ~hasStarted') => isLocked' # isLocked
        /\ (~hasStarted /\ hasStarted') => ~isLocked
        /\ ~isLocked' => ~hasStarted' ]_vars

=============================================================================
